---------------------------- MODULE Spec2Model ----------------------------
(***************************************************************************)
(* CartLeafGrid (porepy/grids/leaf_grid.py): a hierarchy of uniform 2-D    *)
(* Cartesian level grids, the sparse projections between adjacent levels,  *)
(* and the composite leaf grid rebuilt by refine_cells / refine_level.     *)
(*                                                                         *)
(* Sparse matrices are modelled in column-compressed form, as scipy's      *)
(* csc_matrix stores them: a record [nrows, ncols, dtype, col] where       *)
(* col[c] is the set of <<row, value>> entries of column c.  Indices are   *)
(* 0-based as in the source.  Boolean masks are modelled by the set of     *)
(* their True positions; the one vector whose dtype the code lets vary     *)
(* (cells_c) carries its dtype.                                            *)
(***************************************************************************)
EXTENDS Integers, Sequences, FiniteSets, TLC

\* ------------------------------------------------------------------ bounds
\* Largest base grid nx = [MaxNx, MaxNy], largest number of levels, largest
\* number of cell indices in one selection, largest index a selection names,
\* the number of calls made on one object and the largest number of cells of
\* the finest level grid.
MaxNx == 2
MaxNy == 2
MaxLevels == 4
MaxSel == 2
MaxSelIdx == 1
MaxCalls == 3
MaxFineCells == 64
MaxStepCalls == 2

VARIABLES
    mesh_sizes,        \* self.mesh_sizes: <<mx, my>> per level (level_grids follow)
    nodes,             \* self.nodes (columns, as coordinates)
    cell_faces,        \* self.cell_faces (csc)
    face_nodes,        \* self.face_nodes (csc)
    num_nodes,
    num_faces,
    num_cells,
    cell_level,        \* self.cell_level, a function on 0..n-1
    geom,              \* cell_centers, face_centers, face_normals (unset until refined)
    cell_projections,  \* None or a list of matrices, one per level
    face_projections,
    node_projections,
    call,              \* the last call made on the object and how it ended
    ncalls             \* number of calls made so far

vars == <<mesh_sizes, nodes, cell_faces, face_nodes, num_nodes, num_faces,
          num_cells, cell_level, geom, cell_projections, face_projections,
          node_projections, call, ncalls>>

grid_vars == <<nodes, cell_faces, face_nodes, num_nodes, num_faces, num_cells,
               cell_level, geom>>

proj_vars == <<cell_projections, face_projections, node_projections>>

\* ----------------------------------------------------------------- helpers
RECURSIVE Pow2(_)
Pow2(n) == IF n <= 0 THEN 1 ELSE 2 * Pow2(n - 1)

RECURSIVE SumSet(_)
\* Sum of the second components of a finite set of tuples.
SumSet(S) ==
    IF S = {} THEN 0
    ELSE LET e == CHOOSE x \in S : TRUE IN e[2] + SumSet(S \ {e})

\* Python's None for the projection stacks; a stack is otherwise a non-empty
\* list.
None == << >>

\* The value a call returns when it returns no matrix.
NoMatrix == [nrows |-> 0, ncols |-> 0, dtype |-> "none", col |-> << >>]

\* np.arange(n) as a 1-based TLA+ sequence holding 0..n-1.
arange(n) == [k \in 1..n |-> k - 1]

RECURSIVE CumRange(_, _, _, _)
\* Running sums of seq[lo..hi] on top of base.
CumRange(seq, lo, hi, base) ==
    IF lo > hi THEN << >>
    ELSE IF lo = hi THEN << base + seq[lo] >>
    ELSE LET mid == (lo + hi) \div 2
             left == CumRange(seq, lo, mid, base)
         IN  left \o CumRange(seq, mid + 1, hi, left[Len(left)])

\* np.cumsum of a sequence of numbers.
cumsum(seq) == CumRange(seq, 1, Len(seq), 0)

RECURSIVE WhereRange(_, _, _)
WhereRange(S, lo, hi) ==
    IF lo > hi THEN << >>
    ELSE IF lo = hi THEN (IF lo \in S THEN << lo >> ELSE << >>)
    ELSE LET mid == (lo + hi) \div 2
         IN  WhereRange(S, lo, mid) \o WhereRange(S, mid + 1, hi)

\* np.where(mask)[0] for a boolean mask of length n with True set S:
\* the True positions in ascending order.
np_where(S, n) == WhereRange(S, 0, n - 1)

\* sps.csc_matrix((data, indices, indptr), shape=(nrows, len(indptr) - 1))
\* with all data equal to one.  indices and indptr are 1-based sequences of
\* the 0-based numpy arrays.
csc_matrix(indices, indptr, nrows, dtype) ==
    [nrows |-> nrows,
     ncols |-> Len(indptr) - 1,
     dtype |-> dtype,
     col   |-> [c \in 0..(Len(indptr) - 2) |->
                  {<<indices[p + 1], 1>> : p \in indptr[c + 1]..(indptr[c + 2] - 1)}]]

\* Number of rows scipy infers when no shape is given: max(indices) + 1.
InferRows(indices) ==
    IF Len(indices) = 0 THEN 0
    ELSE 1 + (CHOOSE m \in {indices[k] : k \in 1..Len(indices)} :
                \A k \in 1..Len(indices) : indices[k] <= m)

\* Sparse product A * B, column by column: column j of the product is the
\* sum of the columns k of A weighted by the entries (k, b) of column j of B.
\* A product of two boolean matrices is boolean (entries saturate at True).
\* Where no two terms of a column meet in one row, the terms are the entries.
MatMul(A, B) ==
    LET bool == A.dtype = "bool" /\ B.dtype = "bool"
        column(j) ==
            LET terms == UNION {{<<a[1], a[2] * b[2], b[1]>> : a \in A.col[b[1]]}
                                 : b \in B.col[j]}
                rows == {t[1] : t \in terms}
                val(r) == SumSet({<<t[3], t[2]>> : t \in {u \in terms : u[1] = r}})
            IN  IF bool THEN {<<r, 1>> : r \in rows}
                ELSE IF Cardinality(rows) = Cardinality(terms)
                THEN {<<t[1], t[2]>> : t \in terms}
                ELSE {<<r, val(r)>> : r \in rows}
    IN  [nrows |-> A.nrows, ncols |-> B.ncols,
         dtype |-> IF bool THEN "bool" ELSE "int",
         col   |-> [j \in 0..(B.ncols - 1) |-> IF B.col[j] = {} THEN {} ELSE column(j)]]

\* A + B for matrices of one shape.
MatAdd(A, B) ==
    [nrows |-> A.nrows, ncols |-> A.ncols,
     dtype |-> IF A.dtype = "bool" /\ B.dtype = "bool" THEN "bool" ELSE "int",
     col   |-> [j \in 0..(A.ncols - 1) |->
                  IF A.col[j] = {} THEN B.col[j]
                  ELSE IF B.col[j] = {} THEN A.col[j]
                  ELSE LET rows == {e[1] : e \in A.col[j] \cup B.col[j]}
                           val(r) == SumSet({<<0, e[2]>> : e \in {x \in A.col[j] : x[1] = r}})
                                     + SumSet({<<1, e[2]>> : e \in {x \in B.col[j] : x[1] = r}})
                       IN  {<<r, IF A.dtype = "bool" /\ B.dtype = "bool" THEN 1 ELSE val(r)>>
                             : r \in rows}]]

\* np.abs of a sparse matrix.
MatAbs(A) ==
    [A EXCEPT !.col = [j \in 0..(A.ncols - 1) |->
                         {<<e[1], IF e[2] < 0 THEN -e[2] ELSE e[2]>> : e \in A.col[j]}]]

\* (A * mask) > 0 for a matrix without negative entries and a boolean mask
\* with True set S: the rows that some selected column touches.
MatVecPos(A, S) == UNION {{e[1] : e \in {x \in A.col[c] : x[2] > 0}} : c \in S}

\* A.T * x for a vector x given as [dtype, v]: entry c is the dot product of
\* column c of A with x.  Boolean times boolean stays boolean.
MatTVec(A, x) ==
    LET bool == A.dtype = "bool" /\ x.dtype = "bool"
        dot(c) == SumSet({<<e[1], e[2] * x.v[e[1]]>> : e \in A.col[c]})
    IN  [dtype |-> IF bool THEN "bool" ELSE "int",
         v     |-> [c \in 0..(A.ncols - 1) |->
                      IF bool THEN (IF dot(c) > 0 THEN 1 ELSE 0) ELSE dot(c)]]

\* sps.diags(np.ones(n, dtype=bool), dtype=bool): the n x n identity.
diags_ones(n) ==
    [nrows |-> n, ncols |-> n, dtype |-> "bool",
     col   |-> [c \in 0..(n - 1) |-> {<<c, 1>>}]]

\* A.T for any sparse matrix.
Transpose(A) ==
    LET entries == UNION {{<<e[1], c, e[2]>> : e \in A.col[c]} : c \in 0..(A.ncols - 1)}
    IN  [nrows |-> A.ncols, ncols |-> A.nrows, dtype |-> A.dtype,
         col   |-> [r \in 0..(A.nrows - 1) |->
                      {<<t[2], t[3]>> : t \in {u \in entries : u[1] = r}}]]

\* M.T for a selection matrix M: all data one, at most one entry per column,
\* and the row index increasing with the column (the region maps c2r, f2r,
\* cf2rf, ff2rf, rf2cf, rf2ff, rn2cn, rn2fn all have this form).  The k-th
\* occupied row of M then meets the k-th occupied column.
TransposeSel(M) ==
    LET occupied == {c \in 0..(M.ncols - 1) : M.col[c] # {}}
        colSeq == np_where(occupied, M.ncols)
        image == UNION {{e[1] : e \in M.col[c]} : c \in occupied}
        before == cumsum(<<0>> \o [k \in 1..M.nrows |-> IF (k - 1) \in image THEN 1 ELSE 0])
    IN  [nrows |-> M.ncols, ncols |-> M.nrows, dtype |-> M.dtype,
         col   |-> [r \in 0..(M.nrows - 1) |->
                      IF r \in image THEN {<<colSeq[before[r + 1] + 1], 1>>} ELSE {}]]

\* sps.diags(mask, dtype=bool) for a boolean mask of length n with True set S.
diags_mask(S, n) ==
    [nrows |-> n, ncols |-> n, dtype |-> "bool",
     col   |-> [c \in 0..(n - 1) |-> IF c \in S THEN {<<c, 1>>} ELSE {}]]

\* np.sum of a vector v on 0..n-1.
np_sum(v, n) == IF n = 0 THEN 0 ELSE cumsum([k \in 1..n |-> v[k - 1]])[n]

\* np.hstack of two arrays of columns, given as functions on 0..n-1.
hstack(a, na, b, nb) ==
    [k \in 0..(na + nb - 1) |-> IF k < na THEN a[k] ELSE b[k - na]]

\* A[:, idx] for a sequence idx of column numbers.
take(A, idx) == [k \in 0..(Len(idx) - 1) |-> A[idx[k + 1]]]

\* ------------------------------------------------- level grids (pp.CartGrid)
\* A level grid is the uniform Cartesian grid of mesh size ms = <<mx, my>>.
\* Cells and nodes are numbered row by row; the (mx + 1) * my faces normal to
\* the x axis come first, then the mx * (my + 1) faces normal to the y axis.
CartNumCells(ms) == ms[1] * ms[2]

CartNumFacesX(ms) == (ms[1] + 1) * ms[2]

CartNumFaces(ms) == (ms[1] + 1) * ms[2] + ms[1] * (ms[2] + 1)

CartNumNodes(ms) == (ms[1] + 1) * (ms[2] + 1)

\* cell_faces: num_faces x num_cells, -1 on the west and south face of a
\* cell, +1 on its east and north face.
CartCellFaces(ms) ==
    LET mx == ms[1]
        nfx == CartNumFacesX(ms)
    IN  [nrows |-> CartNumFaces(ms), ncols |-> CartNumCells(ms), dtype |-> "int",
         col   |-> [c \in 0..(CartNumCells(ms) - 1) |->
                      LET i == c % mx
                          j == c \div mx
                      IN  {<<j * (mx + 1) + i, -1>>,
                           <<j * (mx + 1) + i + 1, 1>>,
                           <<nfx + j * mx + i, -1>>,
                           <<nfx + (j + 1) * mx + i, 1>>}]]

\* face_nodes: num_nodes x num_faces, True on the two end nodes of a face.
CartFaceNodes(ms) ==
    LET mx == ms[1]
        nfx == CartNumFacesX(ms)
    IN  [nrows |-> CartNumNodes(ms), ncols |-> CartNumFaces(ms), dtype |-> "bool",
         col   |-> [f \in 0..(CartNumFaces(ms) - 1) |->
                      IF f < nfx
                      THEN LET i == f % (mx + 1)
                               j == f \div (mx + 1)
                           IN  {<<j * (mx + 1) + i, 1>>, <<(j + 1) * (mx + 1) + i, 1>>}
                      ELSE LET i == (f - nfx) % mx
                               j == (f - nfx) \div mx
                           IN  {<<j * (mx + 1) + i, 1>>, <<j * (mx + 1) + i + 1, 1>>}]]

\* Geometry after compute_geometry, in units of half the cell size of the
\* finest level along each axis; a cell of this grid is 2 * s units wide.
CartNodes(ms, s) ==
    [n \in 0..(CartNumNodes(ms) - 1) |->
       <<2 * s * (n % (ms[1] + 1)), 2 * s * (n \div (ms[1] + 1))>>]

CartCellCenters(ms, s) ==
    [c \in 0..(CartNumCells(ms) - 1) |->
       <<s * (2 * (c % ms[1]) + 1), s * (2 * (c \div ms[1]) + 1)>>]

CartFaceCenters(ms, s) ==
    LET mx == ms[1]
        nfx == CartNumFacesX(ms)
    IN  [f \in 0..(CartNumFaces(ms) - 1) |->
           IF f < nfx
           THEN <<2 * s * (f % (mx + 1)), s * (2 * (f \div (mx + 1)) + 1)>>
           ELSE <<s * (2 * ((f - nfx) % mx) + 1), 2 * s * ((f - nfx) \div mx)>>]

CartFaceNormals(ms, s) ==
    [f \in 0..(CartNumFaces(ms) - 1) |->
       IF f < CartNumFacesX(ms) THEN <<2 * s, 0>> ELSE <<0, 2 * s>>]

\* ------------------------------------------------ the object's level grids
\* len(self.level_grids)
Levels == Len(mesh_sizes)

\* self.mesh_sizes[level]
MeshOf(level) == mesh_sizes[level + 1]

\* Half the cell size of self.level_grids[level] in the geometry's units.
ScaleOf(level) == Pow2(Levels - 1 - level)

\* --------------------------------------------------- inter-level projectors
\* CellProjMatrix with the tiled index array read row by row (ravel('C'))
\* instead of column by column.
CellProjMatrix_RowOrder(nx0) ==
    LET n == nx0[1]
        m == nx0[2]
        csum == cumsum([r \in 1..m |-> n])
        offset == [r \in 1..m |-> csum[r] - csum[1]]
        tiled == [k \in 0..(4 * n - 1) |-> k % n]
        cell_indices == [p \in 1..(4 * n * m) |->
                           tiled[(p - 1) % (4 * n)] + offset[((p - 1) \div (4 * n)) + 1]]
        cell_ptr == arange(CartNumCells(<<2 * n, 2 * m>>) + 1)
    IN  csc_matrix(cell_indices, cell_ptr, InferRows(cell_indices), "int")

\* The matrix cell_proj_level(level0, level0 + 1) builds from the mesh size
\* nx0 of the coarse level: one column per fine cell, holding the coarse cell.
CellProjMatrix(nx0) ==
    LET n == nx0[1]
        m == nx0[2]
        csum == cumsum([r \in 1..m |-> n])
        offset == [r \in 1..m |-> csum[r] - csum[1]]
        \* np.tile(np.arange(n), (2, 2)).ravel('F'): entry k of a 2 x 2n array
        \* read column by column
        tiled == [k \in 0..(4 * n - 1) |-> (k \div 2) % n]
        cell_indices == [p \in 1..(4 * n * m) |->
                           tiled[(p - 1) % (4 * n)] + offset[((p - 1) \div (4 * n)) + 1]]
        cell_ptr == arange(CartNumCells(<<2 * n, 2 * m>>) + 1)
    IN  csc_matrix(cell_indices, cell_ptr, InferRows(cell_indices), "int")

\* FaceProjMatrix with the parents of the y faces tiled (np.tile) instead of
\* repeated (np.repeat).
FaceProjMatrix_TiledY(ms0) ==
    LET nx0 == <<ms0[1] + 1, ms0[2] + 1>>
        nx1 == <<2 * ms0[1] + 1, 2 * ms0[2] + 1>>
        do_match_x == [p \in 1..(nx1[1] * (nx1[2] - 1)) |->
                         IF ((p - 1) % nx1[1]) % 2 = 0 THEN 1 ELSE 0]
        do_match_y == [p \in 1..((nx1[1] - 1) * nx1[2]) |->
                         IF ((p - 1) \div (nx1[1] - 1)) % 2 = 0 THEN 1 ELSE 0]
        do_match == do_match_x \o do_match_y
        indPtr == cumsum(<<0>> \o do_match)
        indices_x == [p \in 1..(2 * nx0[1] * (nx0[2] - 1)) |->
                        ((p - 1) \div (2 * nx0[1])) * nx0[1]
                        + (((p - 1) % (2 * nx0[1])) % nx0[1])]
        start_y == nx0[1] * (nx0[2] - 1)
        indices_y == [p \in 1..(2 * nx0[2] * (nx0[1] - 1)) |->
                        start_y + ((p - 1) % (nx0[2] * (nx0[1] - 1)))]
        indices == indices_x \o indices_y
    IN  csc_matrix(indices, indPtr, InferRows(indices), "bool")

\* The matrix face_proj_level builds from the coarse mesh size.
FaceProjMatrix(ms0) ==
    LET nx0 == <<ms0[1] + 1, ms0[2] + 1>>
        nx1 == <<2 * ms0[1] + 1, 2 * ms0[2] + 1>>
        \* meshgrid(faces_x, faces_y) flattened: x runs fastest
        do_match_x == [p \in 1..(nx1[1] * (nx1[2] - 1)) |->
                         IF ((p - 1) % nx1[1]) % 2 = 0 THEN 1 ELSE 0]
        do_match_y == [p \in 1..((nx1[1] - 1) * nx1[2]) |->
                         IF ((p - 1) \div (nx1[1] - 1)) % 2 = 0 THEN 1 ELSE 0]
        do_match == do_match_x \o do_match_y
        indPtr == cumsum(<<0>> \o do_match)
        \* np.tile(indices_x_row, (1, 2)).ravel()
        indices_x == [p \in 1..(2 * nx0[1] * (nx0[2] - 1)) |->
                        ((p - 1) \div (2 * nx0[1])) * nx0[1]
                        + (((p - 1) % (2 * nx0[1])) % nx0[1])]
        start_y == nx0[1] * (nx0[2] - 1)
        indices_y == [p \in 1..(2 * nx0[2] * (nx0[1] - 1)) |-> start_y + (p - 1) \div 2]
        indices == indices_x \o indices_y
    IN  csc_matrix(indices, indPtr, InferRows(indices), "bool")

\* NodeProjMatrix matching on the x index alone: nodes_y[1::2] = False left
\* out.
NodeProjMatrix_XOnly(ms0) ==
    LET nx1 == <<2 * ms0[1] + 1, 2 * ms0[2] + 1>>
        do_match == [p \in 1..(nx1[1] * nx1[2]) |->
                       IF ((p - 1) % nx1[1]) % 2 = 0 THEN 1 ELSE 0]
        indPtr == cumsum(<<0>> \o do_match)
        indices == arange(indPtr[Len(indPtr)])
    IN  csc_matrix(indices, indPtr, InferRows(indices), "bool")

\* The matrix node_proj_level builds from the coarse mesh size.
NodeProjMatrix(ms0) ==
    LET nx1 == <<2 * ms0[1] + 1, 2 * ms0[2] + 1>>
        do_match == [p \in 1..(nx1[1] * nx1[2]) |->
                       IF ((p - 1) % nx1[1]) % 2 = 0 /\ ((p - 1) \div nx1[1]) % 2 = 0
                       THEN 1 ELSE 0]
        indPtr == cumsum(<<0>> \o do_match)
        indices == arange(indPtr[Len(indPtr)])
    IN  csc_matrix(indices, indPtr, InferRows(indices), "bool")

\* ProjOutcome with the gap test written as level1 - level0 < 1: a gap of two
\* or more levels gets through.
ProjOutcome_GapBelowOne(level0, level1) ==
    IF level1 - level0 < 1 THEN "LevelGapError"
    ELSE IF level0 >= Levels \/ level1 >= Levels THEN "IndexError"
    ELSE "ok"

\* How a call of one of the three projectors ends: the level-gap ValueError
\* first, then the IndexError of a level that is no level grid.
ProjOutcome(level0, level1) ==
    IF level1 - level0 # 1 THEN "LevelGapError"
    ELSE IF level0 >= Levels \/ level1 >= Levels THEN "IndexError"
    ELSE "ok"

cell_proj_level(level0, level1) ==
    [outcome |-> ProjOutcome(level0, level1),
     ret     |-> IF ProjOutcome(level0, level1) = "ok"
                 THEN CellProjMatrix(MeshOf(level0)) ELSE NoMatrix]

face_proj_level(level0, level1) ==
    [outcome |-> ProjOutcome(level0, level1),
     ret     |-> IF ProjOutcome(level0, level1) = "ok"
                 THEN FaceProjMatrix(MeshOf(level0)) ELSE NoMatrix]

node_proj_level(level0, level1) ==
    [outcome |-> ProjOutcome(level0, level1),
     ret     |-> IF ProjOutcome(level0, level1) = "ok"
                 THEN NodeProjMatrix(MeshOf(level0)) ELSE NoMatrix]

\* ------------------------------------------------------------ _init_projection
\* self.cell_proj_level(level, level + 1), face_proj_level or node_proj_level
\* as _init_projection calls them for its three stacks.
LevelMatrix(entity, level) ==
    IF entity = "cell" THEN cell_proj_level(level, level + 1).ret
    ELSE IF entity = "face" THEN face_proj_level(level, level + 1).ret
    ELSE node_proj_level(level, level + 1).ret

RECURSIVE ProjStack(_, _, _)
\* The list [P0, P0 * proj_level(0, 1), ...] of _init_projection, built from
\* its last entry so far: acc holds the entries of levels 0..Len(acc)-1.
ProjStack(acc, entity, n) ==
    IF Len(acc) >= n THEN acc
    ELSE LET proj_level == LevelMatrix(entity, Len(acc) - 1)
         IN  ProjStack(Append(acc, MatMul(acc[Len(acc)], proj_level)), entity, n)

RECURSIVE ProjStack_NoProduct(_, _, _)
\* ProjStack appending the projector between two levels itself instead of its
\* product with the entry before it.
ProjStack_NoProduct(acc, entity, n) ==
    IF Len(acc) >= n THEN acc
    ELSE LET proj_level == LevelMatrix(entity, Len(acc) - 1)
         IN  ProjStack_NoProduct(Append(acc, proj_level), entity, n)

\* The cell stack of _init_projection with its loop appending proj_level
\* rather than proj_c[-1] * proj_level.
InitCellProjections_NoProduct ==
    ProjStack_NoProduct(<<diags_ones(CartNumCells(MeshOf(0)))>>, "cell", Levels)

InitCellProjections ==
    ProjStack(<<diags_ones(CartNumCells(MeshOf(0)))>>, "cell", Levels)

InitFaceProjections ==
    ProjStack(<<diags_ones(CartNumFaces(MeshOf(0)))>>, "face", Levels)

InitNodeProjections ==
    ProjStack(<<diags_ones(CartNumNodes(MeshOf(0)))>>, "node", Levels)

\* ---------------------------------------------------------------- refine_level
\* ActiveCoarseMask with the two values exchanged: the mask starts all False
\* and the named cells are set True, so the named cells are the ones kept.
ActiveCoarseMask_KeepNamed(ref) ==
    [dtype |-> "bool", v |-> [i \in 0..(num_cells - 1) |-> IF i \in ref THEN 1 ELSE 0]]

\* cells_c = np.ones(num_cells, dtype=bool); cells_c[cells] = False, for the
\* set ref of (valid, non-negative) positions that cells names.
ActiveCoarseMask(ref) ==
    [dtype |-> "bool", v |-> [i \in 0..(num_cells - 1) |-> IF i \in ref THEN 0 ELSE 1]]

\* Invert leaving its argument as it is: the ~ of line 159 forgotten.
Invert_Forgotten(x) == x

\* ~x: logical not of a boolean array, bitwise not of an integer array.
Invert(x) ==
    [dtype |-> x.dtype,
     v     |-> [i \in DOMAIN x.v |-> IF x.dtype = "bool" THEN 1 - x.v[i] ELSE -x.v[i] - 1]]

\* The region map of a mask with True set S over n old entities into the new
\* numbering first, first + 1, ...: shape (nnew, n), column j holds the new
\* number of old entity j (lines 165-171, 173-179, 190-204).
OldToNew(S, n, first, count, nnew) ==
    LET indices == [k \in 1..count |-> first + k - 1]
        indptr == cumsum([k \in 1..(n + 1) |-> IF k >= 2 /\ (k - 2) \in S THEN 1 ELSE 0])
    IN  csc_matrix(indices, indptr, nnew, "bool")

\* The map from the new numbering to the old one: shape (n, nnew), columns
\* first..first+count-1 hold the old numbers np.where(mask)[0] in order
\* (lines 207-220, 239-252).
NewToOld(S, n, first, count, nnew) ==
    LET indices == np_where(S, n)
        indptr == cumsum([k \in 1..(nnew + 1) |->
                            IF k - 1 >= first + 1 /\ k - 1 <= first + count THEN 1 ELSE 0])
    IN  csc_matrix(indices, indptr, n, "bool")

\* array[:, mask] for cells_c: a boolean mask keeps the True columns, an
\* integer array is read as a list of column numbers.
TakeCells(A, x, n) ==
    IF x.dtype = "bool"
    THEN take(A, np_where({j \in 0..(n - 1) : x.v[j] = 1}, n))
    ELSE take(A, [k \in 1..n |-> x.v[k - 1]])

\* The coarse-region part, the fine-region part and the part coupling
\* retained coarse entities to the new fine ones, without the last: an
\* incidence matrix assembled from the two regions only.
AddParts_NoCoupling(c_part, f_part, cf_part) == MatAdd(c_part, f_part)

\* cell_faces (lines 260-263) and face_nodes (lines 265-268) as the sum of
\* their coarse-region part, fine-region part and coupling part.
AddParts(c_part, f_part, cf_part) == MatAdd(MatAdd(c_part, f_part), cf_part)

\* The retained coarse nodes with the complement forgotten: every coarse node
\* with a fine node at its place, those of the refined region included.
CoarseNodes_KeepShared(proj_n, nodes_f, nn1) == MatVecPos(proj_n, 0..(nn1 - 1))

\* nodes_c (line 232): the coarse nodes whose coinciding fine node is not a
\* node of the refined region.
CoarseNodes(proj_n, nodes_f, nn1) == MatVecPos(proj_n, (0..(nn1 - 1)) \ nodes_f)

\* The level tags with the new fine cells tagged two levels up.
NewCellLevel_TwoUp(level, num_c_cells, num_f_cells) ==
    hstack([k \in 0..(num_c_cells - 1) |-> level], num_c_cells,
           [k \in 0..(num_f_cells - 1) |-> level + 2], num_f_cells)

\* cell_level (lines 288-291): level for the retained coarse cells, then
\* level + 1 for the new fine cells.
NewCellLevel(level, num_c_cells, num_f_cells) ==
    hstack([k \in 0..(num_c_cells - 1) |-> level], num_c_cells,
           [k \in 0..(num_f_cells - 1) |-> level + 1], num_f_cells)

\* Everything refine_level(level, cells) computes, from the stacks cp, fp, np
\* it is given and the grid it runs on.  ref is the set of active cells that
\* cells names.  Only called when the call gets through its lookups.
RefineLevelBody(level, ref, cp, fp, np) ==
    LET ms0 == MeshOf(level)
        ms1 == MeshOf(level + 1)
        nc0 == CartNumCells(ms0)
        nc1 == CartNumCells(ms1)
        nf0 == CartNumFaces(ms0)
        nf1 == CartNumFaces(ms1)
        nn0 == CartNumNodes(ms0)
        nn1 == CartNumNodes(ms1)
        CF0 == CartCellFaces(ms0)
        CF1 == CartCellFaces(ms1)
        FN0 == CartFaceNodes(ms0)
        FN1 == CartFaceNodes(ms1)
        \* line 153
        cells_c == MatTVec(cp[level + 1], ActiveCoarseMask(ref))
        \* lines 155-157
        proj_c == CellProjMatrix(ms0)
        proj_f == FaceProjMatrix(ms0)
        proj_n == NodeProjMatrix(ms0)
        proj_fT == Transpose(proj_f)
        proj_nT == Transpose(proj_n)
        \* line 159
        fine_score == MatTVec(proj_c, Invert(cells_c))
        cells_f == {c \in 0..(nc1 - 1) : fine_score.v[c] > 0}
        \* lines 161-163
        num_c_cells == np_sum(cells_c.v, nc0)
        num_f_cells == Cardinality(cells_f)
        num_cells_new == num_c_cells + num_f_cells
        \* lines 165-179
        cells_c_set == {j \in 0..(nc0 - 1) : cells_c.v[j] # 0}
        c2r == OldToNew(cells_c_set, nc0, 0, num_c_cells, num_cells_new)
        f2r == OldToNew(cells_f, nc1, num_c_cells, num_f_cells, num_cells_new)
        \* lines 183-188
        faces_f == MatVecPos(MatAbs(CF1), cells_f)
        faces_c == MatVecPos(proj_f, (0..(nf1 - 1)) \ faces_f)
        num_c_faces == Cardinality(faces_c)
        num_f_faces == Cardinality(faces_f)
        num_faces_new == num_c_faces + num_f_faces
        \* lines 190-220
        cf2rf == OldToNew(faces_c, nf0, 0, num_c_faces, num_faces_new)
        ff2rf == OldToNew(faces_f, nf1, num_c_faces, num_f_faces, num_faces_new)
        rf2cf == NewToOld(faces_c, nf0, 0, num_c_faces, num_faces_new)
        rf2ff == NewToOld(faces_f, nf1, num_c_faces, num_f_faces, num_faces_new)
        \* lines 227-228
        ff2c == MatMul(TransposeSel(rf2ff), diags_mask(faces_f, nf1))
        \* lines 231-236
        nodes_f == MatVecPos(MatAbs(FN1), faces_f)
        nodes_c == CoarseNodes(proj_n, nodes_f, nn1)
        num_c_nodes == Cardinality(nodes_c)
        num_f_nodes == Cardinality(nodes_f)
        num_nodes_new == num_c_nodes + num_f_nodes
        \* lines 239-256
        rn2cn == NewToOld(nodes_c, nn0, 0, num_c_nodes, num_nodes_new)
        rn2fn == NewToOld(nodes_f, nn1, num_c_nodes, num_f_nodes, num_nodes_new)
        fn2c == MatMul(TransposeSel(rn2fn), diags_mask(nodes_f, nn1))
        \* lines 260-263
        c2rT == TransposeSel(c2r)
        f2rT == TransposeSel(f2r)
        cell_faces_c == MatMul(MatMul(TransposeSel(rf2cf), CF0), c2rT)
        cell_faces_f == MatMul(MatMul(TransposeSel(rf2ff), CF1), f2rT)
        cell_faces_cf == MatMul(MatMul(MatMul(ff2c, proj_fT), CF0), c2rT)
        cell_faces_new == AddParts(cell_faces_c, cell_faces_f, cell_faces_cf)
        \* lines 265-268
        cf2rfT == TransposeSel(cf2rf)
        ff2rfT == TransposeSel(ff2rf)
        face_nodes_c == MatMul(MatMul(TransposeSel(rn2cn), FN0), cf2rfT)
        face_nodes_f == MatMul(MatMul(TransposeSel(rn2fn), FN1), ff2rfT)
        face_nodes_cf == MatMul(MatMul(MatMul(fn2c, proj_nT), FN0), cf2rfT)
        face_nodes_new == AddParts(face_nodes_c, face_nodes_f, face_nodes_cf)
        \* lines 274-283
        fine_cols == take(CartCellCenters(ms1, ScaleOf(level + 1)), np_where(cells_f, nc1))
        coarse_cols == TakeCells(CartCellCenters(ms0, ScaleOf(level)), cells_c, nc0)
        cseq == np_where(faces_c, nf0)
        fseq == np_where(faces_f, nf1)
    IN  [num_cells  |-> num_cells_new,
         num_faces  |-> num_faces_new,
         num_nodes  |-> num_nodes_new,
         geom       |-> [computed     |-> TRUE,
                         cell_centers |-> hstack(coarse_cols, Cardinality(DOMAIN coarse_cols),
                                                 fine_cols, num_f_cells),
                         face_centers |-> hstack(take(CartFaceCenters(ms0, ScaleOf(level)), cseq),
                                                 num_c_faces,
                                                 take(CartFaceCenters(ms1, ScaleOf(level + 1)), fseq),
                                                 num_f_faces),
                         face_normals |-> hstack(take(CartFaceNormals(ms0, ScaleOf(level)), cseq),
                                                 num_c_faces,
                                                 take(CartFaceNormals(ms1, ScaleOf(level + 1)), fseq),
                                                 num_f_faces)],
         nodes      |-> hstack(take(CartNodes(ms0, ScaleOf(level)), np_where(nodes_c, nn0)),
                               num_c_nodes,
                               take(CartNodes(ms1, ScaleOf(level + 1)), np_where(nodes_f, nn1)),
                               num_f_nodes),
         cell_faces |-> cell_faces_new,
         face_nodes |-> face_nodes_new,
         \* lines 288-291
         cell_level |-> NewCellLevel(level, num_c_cells, num_f_cells),
         \* lines 293-300
         cell_projections |-> [cp EXCEPT ![level + 1] = c2r, ![level + 2] = f2r],
         face_projections |-> [fp EXCEPT ![level + 1] = cf2rf, ![level + 2] = ff2rf],
         node_projections |-> [np EXCEPT ![level + 1] = rn2cn, ![level + 2] = rn2fn]]

\* How refine_level(level, cells) ends on the stack cp, once cells has been
\* applied to the mask: the lookup of cell_projections[level], the shape check
\* of the product on line 153, then the lookup of level_grids[level + 1].
RefineLevelOutcome(level, cp) ==
    IF cp = None THEN "TypeError"
    ELSE IF level >= Levels THEN "IndexError"
    ELSE IF cp[level + 1].nrows # num_cells THEN "DimensionMismatch"
    ELSE IF level + 1 >= Levels THEN "IndexError"
    ELSE "ok"

\* ---------------------------------------------------------------- the inputs
\* The cell selections a caller passes: lists of at most MaxSel distinct
\* indices, among them -1 (Python's last element) and indices that may lie
\* beyond the active range.
SelSets == {S \in SUBSET (-1..MaxSelIdx) : Cardinality(S) <= MaxSel}

\* The selections tried in a state: those of SelSets and the one index just
\* past the last active cell.
Selections == SelSets \cup {{num_cells}}

\* Whether numpy accepts every index of S for an array of length n.
ValidIndices(S, n) == \A i \in S : i < n /\ i >= -n

\* The positions the indices of S name in an array of length n.
Positions(S, n) == {IF i < 0 THEN i + n ELSE i : i \in S}

\* The record kept of the last call: what was called with which arguments,
\* how it ended ("ok" or the error raised), the matrix it returned, and
\* whether every call on the object so far has ended "ok".  While
\* refine_level is between its assignments of lines 271-300, pc is the line
\* of the next assignment and pending holds the values it has computed; pc
\* is 0 once the call has returned.
CallRecord(op, level, level1, cells, outcome, ret) ==
    [op |-> op, level |-> level, level1 |-> level1, cells |-> cells,
     outcome |-> outcome, ret |-> ret,
     clean |-> IF op = "__init__" THEN TRUE ELSE call.clean /\ outcome = "ok",
     pc |-> 0, pending |-> << >>]

\* ------------------------------------------------------------------- __init__
\* CartLeafGrid(nx, physdims, levels): the leaf grid is the level-0 grid, the
\* projection stacks are None and every cell is at level 0.  The geometry of
\* the leaf grid itself is not computed (only nodes is copied).
Init ==
    /\ mesh_sizes \in {[l \in 1..n |-> <<nx * Pow2(l - 1), ny * Pow2(l - 1)>>] :
                         nx \in 1..MaxNx, ny \in 1..MaxNy, n \in 1..MaxLevels}
    /\ CartNumCells(mesh_sizes[Len(mesh_sizes)]) <= MaxFineCells
    /\ nodes = CartNodes(MeshOf(0), ScaleOf(0))
    /\ cell_faces = CartCellFaces(MeshOf(0))
    /\ face_nodes = CartFaceNodes(MeshOf(0))
    /\ num_nodes = CartNumNodes(MeshOf(0))
    /\ num_faces = CartNumFaces(MeshOf(0))
    /\ num_cells = CartNumCells(MeshOf(0))
    /\ cell_projections = None
    /\ face_projections = None
    /\ node_projections = None
    /\ cell_level = [i \in 0..(CartNumCells(MeshOf(0)) - 1) |-> 0]
    /\ geom = [computed |-> FALSE, cell_centers |-> << >>, face_centers |-> << >>,
               face_normals |-> << >>]
    /\ call = CallRecord("__init__", -1, -1, {}, "ok", NoMatrix)
    /\ ncalls = 0

\* ----------------------------------------------------------------- operations
\* Install without lines 293-294: the cell region maps are not stored.
Install_CellStackKept(r) ==
    /\ num_cells' = r.num_cells
    /\ num_faces' = r.num_faces
    /\ num_nodes' = r.num_nodes
    /\ geom' = r.geom
    /\ nodes' = r.nodes
    /\ cell_faces' = r.cell_faces
    /\ face_nodes' = r.face_nodes
    /\ cell_level' = r.cell_level
    /\ cell_projections' = IF cell_projections = None THEN InitCellProjections
                           ELSE cell_projections
    /\ face_projections' = r.face_projections
    /\ node_projections' = r.node_projections

\* The assignments of lines 271-300 from a computed result r.
Install(r) ==
    /\ num_cells' = r.num_cells
    /\ num_faces' = r.num_faces
    /\ num_nodes' = r.num_nodes
    /\ geom' = r.geom
    /\ nodes' = r.nodes
    /\ cell_faces' = r.cell_faces
    /\ face_nodes' = r.face_nodes
    /\ cell_level' = r.cell_level
    /\ cell_projections' = r.cell_projections
    /\ face_projections' = r.face_projections
    /\ node_projections' = r.node_projections

\* a | b for a boolean a and an integer b (numpy's bitwise or).
BitOrBool(a, b) == IF a /\ b % 2 = 0 THEN b + 1 ELSE b

\* np.min(self.cell_level); only used on a non-empty array.
MinLevel ==
    CHOOSE m \in {cell_level[i] : i \in 0..(num_cells - 1)} :
      \A i \in 0..(num_cells - 1) : m <= cell_level[i]

\* ref_cells | self.cell_level > level: Python reads it as
\* (ref_cells | self.cell_level) > level.  The True positions.
RefCellsOfLevel(ref_cells, level) ==
    {i \in 0..(num_cells - 1) : BitOrBool(i \in ref_cells, cell_level[i]) > level}

\* RefineCells with the stacks dropped again when the call fails.
RefineCells_ResetOnFailure(cells) ==
    /\ ncalls < MaxCalls
    /\ ncalls' = ncalls + 1
    /\ UNCHANGED mesh_sizes
    /\ LET lazy == cell_projections = None
           cp == IF lazy THEN InitCellProjections ELSE cell_projections
           fp == IF lazy THEN InitFaceProjections ELSE face_projections
           np == IF lazy THEN InitNodeProjections ELSE node_projections
           outcome ==
               IF ~ValidIndices(cells, num_cells) THEN "IndexError"
               ELSE IF num_cells = 0 THEN "EmptyArrayError"
               ELSE RefineLevelOutcome(MinLevel, cp)
       IN  /\ call' = CallRecord("refine_cells", -1, -1, cells, outcome, NoMatrix)
           /\ IF outcome = "ok"
              THEN \E r \in {RefineLevelBody(
                                 MinLevel,
                                 RefCellsOfLevel(Positions(cells, num_cells), MinLevel),
                                 cp, fp, np)} : Install(r)
              ELSE /\ cell_projections' = None
                   /\ face_projections' = None
                   /\ node_projections' = None
                   /\ UNCHANGED grid_vars

\* refine_cells(cells)
RefineCells(cells) ==
    /\ ncalls < MaxCalls
    /\ ncalls' = ncalls + 1
    /\ UNCHANGED mesh_sizes
    /\ LET lazy == cell_projections = None
           cp == IF lazy THEN InitCellProjections ELSE cell_projections
           fp == IF lazy THEN InitFaceProjections ELSE face_projections
           np == IF lazy THEN InitNodeProjections ELSE node_projections
           outcome ==
               IF ~ValidIndices(cells, num_cells) THEN "IndexError"
               ELSE IF num_cells = 0 THEN "EmptyArrayError"
               ELSE RefineLevelOutcome(MinLevel, cp)
       IN  /\ call' = CallRecord("refine_cells", -1, -1, cells, outcome, NoMatrix)
           /\ IF outcome = "ok"
              THEN \E r \in {RefineLevelBody(
                                 MinLevel,
                                 RefCellsOfLevel(Positions(cells, num_cells), MinLevel),
                                 cp, fp, np)} : Install(r)
              ELSE /\ cell_projections' = cp
                   /\ face_projections' = fp
                   /\ node_projections' = np
                   /\ UNCHANGED grid_vars

\* refine_level(level, cells)
RefineLevel(level, cells) ==
    /\ ncalls < MaxCalls
    /\ ncalls' = ncalls + 1
    /\ UNCHANGED mesh_sizes
    /\ LET outcome ==
               IF ~ValidIndices(cells, num_cells) THEN "IndexError"
               ELSE RefineLevelOutcome(level, cell_projections)
       IN  /\ call' = CallRecord("refine_level", level, -1, cells, outcome, NoMatrix)
           /\ IF outcome = "ok"
              THEN \E r \in {RefineLevelBody(level, Positions(cells, num_cells),
                                                cell_projections, face_projections,
                                                node_projections)} : Install(r)
              ELSE UNCHANGED <<grid_vars, proj_vars>>

\* cell_proj_level(level0, level1), face_proj_level, node_proj_level: pure
\* functions of the level grids, which no call changes.
CellProjLevel(level0, level1) ==
    /\ call' = CallRecord("cell_proj_level", level0, level1, {},
                          cell_proj_level(level0, level1).outcome,
                          cell_proj_level(level0, level1).ret)
    /\ UNCHANGED <<mesh_sizes, grid_vars, proj_vars, ncalls>>

FaceProjLevel(level0, level1) ==
    /\ call' = CallRecord("face_proj_level", level0, level1, {},
                          face_proj_level(level0, level1).outcome,
                          face_proj_level(level0, level1).ret)
    /\ UNCHANGED <<mesh_sizes, grid_vars, proj_vars, ncalls>>

NodeProjLevel(level0, level1) ==
    /\ call' = CallRecord("node_proj_level", level0, level1, {},
                          node_proj_level(level0, level1).outcome,
                          node_proj_level(level0, level1).ret)
    /\ UNCHANGED <<mesh_sizes, grid_vars, proj_vars, ncalls>>

DoRefineCells == \E cells \in Selections : RefineCells(cells)

DoRefineLevel == \E level \in 0..Levels, cells \in Selections : RefineLevel(level, cells)

DoCellProjLevel == \E level0 \in 0..Levels, level1 \in 0..Levels : CellProjLevel(level0, level1)

DoFaceProjLevel == \E level0 \in 0..Levels, level1 \in 0..Levels : FaceProjLevel(level0, level1)

DoNodeProjLevel == \E level0 \in 0..Levels, level1 \in 0..Levels : NodeProjLevel(level0, level1)

\* ------------------------------------------- refine_level statement by statement
\* The lines of the assignments to self at the end of refine_level, in order.
InstallLines == <<271, 272, 273, 274, 278, 280, 282, 285, 286, 288,
                  293, 294, 296, 297, 299, 300>>

\* The line after the given one; 0 after the last.
NextLine(line) ==
    LET k == CHOOSE i \in 1..Len(InstallLines) : InstallLines[i] = line
    IN  IF k = Len(InstallLines) THEN 0 ELSE InstallLines[k + 1]

\* refine_level(level, cells) up to line 268: the lookups and the computation
\* of the new grid, kept in the call's frame; nothing of self is assigned yet.
BeginRefineLevel(level, cells) ==
    /\ call.pc = 0
    /\ ncalls < MaxStepCalls
    /\ ncalls' = ncalls + 1
    /\ UNCHANGED <<mesh_sizes, grid_vars, proj_vars>>
    /\ LET outcome ==
               IF ~ValidIndices(cells, num_cells) THEN "IndexError"
               ELSE RefineLevelOutcome(level, cell_projections)
           frame == CallRecord("refine_level", level, -1, cells, outcome, NoMatrix)
       IN  call' = IF outcome # "ok" THEN frame
                   ELSE [frame EXCEPT
                           !.pc = InstallLines[1],
                           !.pending = [level |-> level,
                                        r |-> RefineLevelBody(
                                                 level, Positions(cells, num_cells),
                                                 cell_projections, face_projections,
                                                 node_projections)]]

\* refine_cells(cells) up to line 268 of the refine_level call it makes.
BeginRefineCells(cells) ==
    /\ call.pc = 0
    /\ ncalls < MaxStepCalls
    /\ ncalls' = ncalls + 1
    /\ UNCHANGED <<mesh_sizes, grid_vars>>
    /\ LET lazy == cell_projections = None
           cp == IF lazy THEN InitCellProjections ELSE cell_projections
           fp == IF lazy THEN InitFaceProjections ELSE face_projections
           np == IF lazy THEN InitNodeProjections ELSE node_projections
           outcome ==
               IF ~ValidIndices(cells, num_cells) THEN "IndexError"
               ELSE IF num_cells = 0 THEN "EmptyArrayError"
               ELSE RefineLevelOutcome(MinLevel, cp)
           frame == CallRecord("refine_cells", -1, -1, cells, outcome, NoMatrix)
       IN  /\ cell_projections' = cp
           /\ face_projections' = fp
           /\ node_projections' = np
           /\ call' = IF outcome # "ok" THEN frame
                      ELSE [frame EXCEPT
                              !.pc = InstallLines[1],
                              !.pending = [level |-> MinLevel,
                                           r |-> RefineLevelBody(
                                                    MinLevel,
                                                    RefCellsOfLevel(Positions(cells, num_cells),
                                                                    MinLevel),
                                                    cp, fp, np)]]

\* The assignment of line call.pc, one of lines 271-300.
InstallStep ==
    /\ call.pc # 0
    /\ LET line == call.pc
           r == call.pending.r
           lo == call.pending.level + 1
           hi == call.pending.level + 2
       IN  /\ call' = [call EXCEPT !.pc = NextLine(line),
                                   !.pending = IF NextLine(line) = 0 THEN << >> ELSE @]
           /\ num_cells' = IF line = 271 THEN r.num_cells ELSE num_cells
           /\ num_faces' = IF line = 272 THEN r.num_faces ELSE num_faces
           /\ num_nodes' = IF line = 273 THEN r.num_nodes ELSE num_nodes
           /\ geom' = IF line = 274
                      THEN [geom EXCEPT !.cell_centers = r.geom.cell_centers]
                      ELSE IF line = 278
                      THEN [geom EXCEPT !.face_centers = r.geom.face_centers]
                      ELSE IF line = 280
                      THEN [geom EXCEPT !.face_normals = r.geom.face_normals,
                                        !.computed = TRUE]
                      ELSE geom
           /\ nodes' = IF line = 282 THEN r.nodes ELSE nodes
           /\ cell_faces' = IF line = 285 THEN r.cell_faces ELSE cell_faces
           /\ face_nodes' = IF line = 286 THEN r.face_nodes ELSE face_nodes
           /\ cell_level' = IF line = 288 THEN r.cell_level ELSE cell_level
           /\ cell_projections' =
                 IF line = 293 THEN [cell_projections EXCEPT ![lo] = r.cell_projections[lo]]
                 ELSE IF line = 294 THEN [cell_projections EXCEPT ![hi] = r.cell_projections[hi]]
                 ELSE cell_projections
           /\ face_projections' =
                 IF line = 296 THEN [face_projections EXCEPT ![lo] = r.face_projections[lo]]
                 ELSE IF line = 297 THEN [face_projections EXCEPT ![hi] = r.face_projections[hi]]
                 ELSE face_projections
           /\ node_projections' =
                 IF line = 299 THEN [node_projections EXCEPT ![lo] = r.node_projections[lo]]
                 ELSE IF line = 300 THEN [node_projections EXCEPT ![hi] = r.node_projections[hi]]
                 ELSE node_projections
    /\ UNCHANGED <<mesh_sizes, ncalls>>

DoBeginRefineCells == \E cells \in Selections : BeginRefineCells(cells)

DoBeginRefineLevel ==
    \E level \in 0..Levels, cells \in Selections : BeginRefineLevel(level, cells)

\* The refinement calls on one object.
Next == DoRefineCells \/ DoRefineLevel

Spec == Init /\ [][Next]_vars

\* The three projectors applied to every pair of levels of a fresh object.
NextProj == DoCellProjLevel \/ DoFaceProjLevel \/ DoNodeProjLevel

SpecProj == Init /\ [][NextProj]_vars

\* The refinement calls with every assignment of lines 271-300 a step of its
\* own, as a reader in another thread meets them.
NextSteps == DoBeginRefineCells \/ DoBeginRefineLevel \/ InstallStep

SpecSteps == Init /\ [][NextSteps]_vars

\* ------------------------------------------------------- reading the leaf grid
\* The number of active cells at a level.
CellsAtLevel(level) == Cardinality({i \in 0..(num_cells - 1) : cell_level[i] = level})

\* The centres of the active cells.  A fresh object holds no cell_centers of
\* its own: its active cells are the cells of the level-0 grid, centres
\* included.
ActiveCenters ==
    IF geom.computed THEN geom.cell_centers
    ELSE CartCellCenters(MeshOf(0), ScaleOf(0))

\* The centres of the cells of the finest level grid: one sample point per
\* smallest piece of the domain.
FinestCenters ==
    LET cc == CartCellCenters(MeshOf(Levels - 1), ScaleOf(Levels - 1))
    IN  {cc[k] : k \in DOMAIN cc}

Abs(x) == IF x < 0 THEN -x ELSE x

\* Whether a cell of the given level centred at c contains the point p.
CellContains(level, c, p) ==
    /\ Abs(p[1] - c[1]) < ScaleOf(level)
    /\ Abs(p[2] - c[2]) < ScaleOf(level)

\* The active cells that contain the point p.
Covering(p) ==
    {i \in DOMAIN ActiveCenters :
        i \in DOMAIN cell_level /\ CellContains(cell_level[i], ActiveCenters[i], p)}

\* The two refinement operations and the three projectors.
RefineOps == {"refine_cells", "refine_level"}

ProjOps == {"cell_proj_level", "face_proj_level", "node_proj_level"}

\* ------------------------------------------------------------------------- C1
\* C1: on a freshly built grid with levels >= 2 and n0 level-0 cells, one
\* refine_cells call naming k distinct valid level-0 cells succeeds and leaves
\* num_cells = n0 + 3k, with 4k active cells at level 1 and n0 - k at level 0.
C1_FreshRefineCounts ==
    LET n0 == CartNumCells(MeshOf(0))
        k == Cardinality(call.cells)
    IN  (/\ ncalls = 1
         /\ call.op = "refine_cells"
         /\ Levels >= 2
         /\ call.cells \subseteq 0..(n0 - 1))
        => /\ call.outcome = "ok"
           /\ num_cells = n0 + 3 * k
           /\ CellsAtLevel(1) = 4 * k
           /\ CellsAtLevel(0) = n0 - k

\* The 2x2 grid with two levels after refine_cells([0]): 7 active cells.
C1_Witness ==
    /\ ncalls = 1
    /\ call.op = "refine_cells"
    /\ call.cells = {0}
    /\ mesh_sizes = <<(<<2, 2>>), (<<4, 4>>)>>
    /\ num_cells = 7
    /\ CellsAtLevel(1) = 4

\* ------------------------------------------------------------------------- C3
\* The cell (i, j) of a level grid with mx cells per row has number j * mx + i.
\* C3: cell_proj_level(L, L + 1) relates every fine cell (i, j) to exactly one
\* coarse cell, the one at (i div 2, j div 2), and every coarse cell to
\* exactly four fine cells, its 2x2 block.
C3_ParentIsHalvedIndex ==
    (call.op = "cell_proj_level" /\ call.outcome = "ok")
    => LET P == call.ret
           mx0 == MeshOf(call.level)[1]
           mx1 == MeshOf(call.level1)[1]
           nc0 == CartNumCells(MeshOf(call.level))
           nc1 == CartNumCells(MeshOf(call.level1))
           parent(f) == ((f \div mx1) \div 2) * mx0 + ((f % mx1) \div 2)
           children(c) == {f \in 0..(nc1 - 1) : \E e \in P.col[f] : e[1] = c /\ e[2] # 0}
           block(c) == {(2 * (c \div mx0) + dj) * mx1 + 2 * (c % mx0) + di :
                          di \in 0..1, dj \in 0..1}
       IN  /\ P.nrows = nc0
           /\ P.ncols = nc1
           /\ \A f \in 0..(nc1 - 1) : P.col[f] = {<<parent(f), 1>>}
           /\ \A c \in 0..(nc0 - 1) :
                /\ Cardinality(children(c)) = 4
                /\ children(c) = block(c)

\* The projector between levels 1 and 2 of a grid with a 2x2 base.
C3_Witness ==
    /\ call.op = "cell_proj_level"
    /\ call.outcome = "ok"
    /\ call.level = 1
    /\ mesh_sizes[1] = <<2, 2>>
    /\ call.ret.ncols = 64

\* ------------------------------------------------------------------------- C4
\* C4: cell_proj_level, face_proj_level and node_proj_level fail with the
\* level-gap error whenever level1 - level0 # 1; the failed call returns no
\* matrix and leaves the leaf grid as it was.
C4_LevelGapRejected ==
    [][(call'.op \in ProjOps /\ call'.level1 - call'.level # 1)
       => /\ call'.outcome = "LevelGapError"
          /\ call'.ret = NoMatrix
          /\ UNCHANGED <<mesh_sizes, grid_vars, proj_vars>>]_vars

\* A projector rejected on the pair (0, 2) of a grid with three levels.
C4_Witness ==
    /\ call.op = "node_proj_level"
    /\ call.level = 0
    /\ call.level1 = 2
    /\ call.outcome = "LevelGapError"
    /\ Levels >= 3

\* ------------------------------------------------------------------------- C2
\* The centres of the cells of one level grid.
LevelCenters(level) ==
    LET cc == CartCellCenters(MeshOf(level), ScaleOf(level))
    IN  {cc[k] : k \in DOMAIN cc}

\* The active cells tile the domain: every active cell is a cell of the one
\* level grid its cell_level names, and every point of the domain lies in
\* exactly one active cell (no gap, no overlap between levels).
Tiled ==
    /\ DOMAIN ActiveCenters = 0..(num_cells - 1)
    /\ DOMAIN cell_level = 0..(num_cells - 1)
    /\ \A i \in 0..(num_cells - 1) :
         /\ cell_level[i] \in 0..(Levels - 1)
         /\ ActiveCenters[i] \in LevelCenters(cell_level[i])
    /\ \A p \in FinestCenters : Cardinality(Covering(p)) = 1

\* C2: after any sequence of successful refine_cells / refine_level calls the
\* active cells tile the domain, each point covered by exactly one active cell
\* and each active cell belonging to exactly one level.
C2_TilingAfterSuccessfulCalls == call.clean => Tiled

\* ------------------------------------------------------------------------- C5
\* Two matrices of one shape with the same entries.
SameEntries(A, B) == A.nrows = B.nrows /\ A.ncols = B.ncols /\ A.col = B.col

\* cell_projections[L + 1] = cell_projections[L] * cell_proj_level(L, L + 1)
\* for every level L with L + 1 < levels.
StackComposes ==
    \A L \in 0..(Levels - 2) :
        SameEntries(cell_projections[L + 2],
                    MatMul(cell_projections[L + 1], cell_proj_level(L, L + 1).ret))

\* C5 as stated: in every state where the cell projection stack has been
\* initialised, each entry is the entry below it times the projector between
\* the two levels.
C5_StackComposesAlways == cell_projections # None => StackComposes

\* C5 amended: the stack composes as long as it is the one _init_projection
\* built, that is until the first successful refine_level replaces entries.
C5_StackComposesUntilRefined ==
    (cell_projections # None /\ ~geom.computed) => StackComposes

\* A grid of three or more levels whose stacks were built by a refine_cells
\* call that then failed on its selection.
C5_Witness ==
    /\ cell_projections # None
    /\ ~geom.computed
    /\ Levels >= 3
    /\ CartNumCells(MeshOf(0)) >= 2

\* ------------------------------------------------------------------------- C6
\* The number of faces incident to active cell i.
FaceCount(i) == Cardinality({e \in cell_faces.col[i] : e[2] # 0})

\* The sides of active cell i across which the active cells are one level
\* finer: the side in direction d borders the two cells of half the size
\* centred at c + d * 3h -+ h * (d turned by a quarter), h a quarter of the
\* cell size.
FinerSides(i) ==
    LET c == ActiveCenters[i]
        h == ScaleOf(cell_level[i]) \div 2
        finer == {ActiveCenters[k] : k \in {j \in 0..(num_cells - 1) :
                                               cell_level[j] = cell_level[i] + 1}}
    IN  {d \in {<<-1, 0>>, <<1, 0>>, <<0, -1>>, <<0, 1>>} :
           \E t \in {-1, 1} :
              <<c[1] + 3 * h * d[1] + t * h * d[2],
                c[2] + 3 * h * d[2] + t * h * d[1]>> \in finer}

\* C6 as stated: every active cell has exactly four incident faces, a coarse
\* cell next to a refined one included.
C6_FourFacesPerCell == \A i \in 0..(num_cells - 1) : FaceCount(i) = 4

\* C6 amended: an active cell has one face per side, except that a side it
\* shares with cells one level finer is made of their two half faces; its
\* face count is 4 plus the number of such sides.
C6_FacesPerSide ==
    \A i \in 0..(num_cells - 1) : FaceCount(i) = 4 + Cardinality(FinerSides(i))

\* A retained coarse cell with a refined neighbour, and so five faces or more.
C6_Witness ==
    \E i \in 0..(num_cells - 1) :
        /\ call.clean
        /\ cell_level[i] = 0
        /\ FinerSides(i) # {}
        /\ FaceCount(i) >= 5

\* ------------------------------------------------------------------------- C7
\* C7: refine_cells with an empty selection, in any reachable state, completes
\* without error and leaves the counts, cell_level, the two incidence
\* matrices, nodes and (once computed) the geometry arrays as they were.
C7_EmptySelectionIsNoOp ==
    [][(call'.op = "refine_cells" /\ call'.cells = {})
       => /\ call'.outcome = "ok"
          /\ UNCHANGED <<num_cells, num_faces, num_nodes, cell_level,
                         cell_faces, face_nodes, nodes>>
          /\ (geom.computed => geom' = geom)]_vars

\* ------------------------------------------------------------------------- C8
\* C8: over refine_cells calls the level of the active cell covering a point
\* of the domain never decreases, and neither does num_cells.
C8_RefineCellsMonotone ==
    [][call'.op = "refine_cells"
       => /\ num_cells' >= num_cells
          /\ \A p \in FinestCenters :
               \A i \in Covering(p), k \in Covering(p)' :
                  cell_level'[k] >= cell_level[i]]_vars

\* A second refine_cells call on a grid that already mixes two levels.
C8_Witness ==
    /\ call.op = "refine_cells"
    /\ call.outcome = "ok"
    /\ call.clean
    /\ ncalls >= 2
    /\ CellsAtLevel(1) > 0
    /\ CellsAtLevel(2) > 0

\* ------------------------------------------------------------------------- C9
\* The level a refinement call works on: the level passed to refine_level,
\* the lowest active level for refine_cells.
StepLevel == IF call'.op = "refine_level" THEN call'.level ELSE MinLevel

\* The active cells the call's mask selects, as refine_level receives it.
StepMask ==
    IF call'.op = "refine_level" THEN Positions(call'.cells, num_cells)
    ELSE RefCellsOfLevel(Positions(call'.cells, num_cells), MinLevel)

\* C9: after a successful refine_level(L, mask), also when refine_cells makes
\* the call, on an object none of whose calls has failed, the active cells are the survivors (the level-L cells active
\* before and not selected) together with the fine cells (the four children
\* of every level-L cell that is no survivor), no cell twice, and num_cells
\* is the number of survivors plus the number of fine cells.
C9_SurvivorsAndChildren ==
    [][(call.clean /\ call'.op \in RefineOps /\ call'.outcome = "ok")
       => LET L == StepLevel
              survivors == {ActiveCenters[i] :
                              i \in {j \in 0..(num_cells - 1) \cap DOMAIN ActiveCenters :
                                       cell_level[j] = L /\ j \notin StepMask}}
              fine == {c \in LevelCenters(L + 1) :
                         ~\E s \in survivors : CellContains(L, s, c)}
              after == {<<cell_level'[i], ActiveCenters'[i]>> : i \in DOMAIN ActiveCenters'}
          IN  /\ after = ({L} \X survivors) \cup ({L + 1} \X fine)
              /\ DOMAIN ActiveCenters' = 0..(num_cells' - 1)
              /\ num_cells' = Cardinality(survivors) + Cardinality(fine)
              /\ Cardinality(after) = num_cells']_vars

\* ------------------------------------------------------------------------ C10
\* The last step was a refinement call that failed.
FailedRefinement == call'.op \in RefineOps /\ call'.outcome # "ok"

\* C10 as stated: a refine_cells or refine_level call that fails changes none
\* of the grid's fields and none of the three projection stacks.
C10_FailedCallChangesNothing ==
    [][FailedRefinement => UNCHANGED <<grid_vars, proj_vars>>]_vars

\* C10 amended: a failed call changes none of the grid's fields; it leaves
\* the three projection stacks as they were too, except that refine_cells on
\* an object whose stacks are still None leaves them as _init_projection
\* builds them.
C10_FailedCallKeepsGrid ==
    [][FailedRefinement
       => /\ UNCHANGED grid_vars
          /\ IF call'.op = "refine_cells" /\ cell_projections = None
             THEN /\ cell_projections' = InitCellProjections
                  /\ face_projections' = InitFaceProjections
                  /\ node_projections' = InitNodeProjections
             ELSE UNCHANGED proj_vars]_vars

\* A refine_level call rejected, after a refinement, for a level whose stack
\* entry no longer fits the grid.
C10_Witness ==
    /\ call.op = "refine_level"
    /\ call.outcome = "DimensionMismatch"
    /\ geom.computed
    /\ CellsAtLevel(1) > 0

\* ------------------------------------------------------------------------ C11
\* The face of a level grid of mesh size ms with number f: its orientation
\* ("x" for a face normal to the x axis), its index n along its normal axis
\* and its index t along the tangential axis.
FaceAt(ms, f) ==
    IF f < CartNumFacesX(ms)
    THEN [axis |-> "x", n |-> f % (ms[1] + 1), t |-> f \div (ms[1] + 1)]
    ELSE [axis |-> "y", n |-> (f - CartNumFacesX(ms)) \div ms[1],
                        t |-> (f - CartNumFacesX(ms)) % ms[1]]

\* The number of the face of orientation axis at (n, t).
FaceNumber(ms, axis, n, t) ==
    IF axis = "x" THEN t * (ms[1] + 1) + n
    ELSE CartNumFacesX(ms) + n * ms[1] + t

\* C11: face_proj_level(L, L + 1) relates a fine face to a coarse face iff its
\* index along its normal axis is even; its one parent then has the same
\* orientation, half the normal index and the floor of half the tangential
\* index; and every coarse face has exactly two fine children.
C11_FaceParentByParity ==
    (call.op = "face_proj_level" /\ call.outcome = "ok")
    => LET P == call.ret
           ms0 == MeshOf(call.level)
           ms1 == MeshOf(call.level1)
           nf0 == CartNumFaces(ms0)
           nf1 == CartNumFaces(ms1)
           parent(f) == LET a == FaceAt(ms1, f)
                        IN  FaceNumber(ms0, a.axis, a.n \div 2, a.t \div 2)
           children(c) == {f \in 0..(nf1 - 1) : \E e \in P.col[f] : e[1] = c /\ e[2] # 0}
       IN  /\ P.nrows = nf0
           /\ P.ncols = nf1
           /\ \A f \in 0..(nf1 - 1) :
                P.col[f] = IF FaceAt(ms1, f).n % 2 = 0 THEN {<<parent(f), 1>>} ELSE {}
           /\ \A c \in 0..(nf0 - 1) : Cardinality(children(c)) = 2

\* The face projector between levels 1 and 2 of a grid with a 2x2 base.
C11_Witness ==
    /\ call.op = "face_proj_level"
    /\ call.outcome = "ok"
    /\ call.level = 1
    /\ mesh_sizes[1] = <<2, 2>>
    /\ call.ret.nrows = 40

\* ------------------------------------------------------------------------ C12
\* C12: node_proj_level(L, L + 1) relates the fine node (i, j) to a coarse
\* node iff i and j are both even, and then to the coarse node (i/2, j/2)
\* only; every coarse node has exactly one fine counterpart.
C12_NodeParentByParity ==
    (call.op = "node_proj_level" /\ call.outcome = "ok")
    => LET P == call.ret
           ms0 == MeshOf(call.level)
           ms1 == MeshOf(call.level1)
           nn0 == CartNumNodes(ms0)
           nn1 == CartNumNodes(ms1)
           i(f) == f % (ms1[1] + 1)
           j(f) == f \div (ms1[1] + 1)
           counterparts(c) == {f \in 0..(nn1 - 1) : \E e \in P.col[f] : e[1] = c /\ e[2] # 0}
       IN  /\ P.nrows = nn0
           /\ P.ncols = nn1
           /\ \A f \in 0..(nn1 - 1) :
                P.col[f] = IF i(f) % 2 = 0 /\ j(f) % 2 = 0
                           THEN {<<(j(f) \div 2) * (ms0[1] + 1) + i(f) \div 2, 1>>}
                           ELSE {}
           /\ \A c \in 0..(nn0 - 1) : Cardinality(counterparts(c)) = 1

\* The node projector between levels 1 and 2 of a grid with a 2x2 base.
C12_Witness ==
    /\ call.op = "node_proj_level"
    /\ call.outcome = "ok"
    /\ call.level = 1
    /\ mesh_sizes[1] = <<2, 2>>
    /\ call.ret.nrows = 25

\* ------------------------------------------------------------------------ C13
\* The active cells as (level, centre) pairs.
ActiveCells == {<<cell_level[i], ActiveCenters[i]>> : i \in DOMAIN ActiveCenters}

\* The centres of the four children of the cell of a level centred at c.
ChildCenters(level, c) ==
    LET h == ScaleOf(level) \div 2
    IN  {<<c[1] + dx * h, c[2] + dy * h>> : dx \in {-1, 1}, dy \in {-1, 1}}

\* C13: refine_cells(S), on an object none of whose calls has failed,
\* replaces every selected active cell below the finest level by its four
\* children at the next level, whatever the levels of the other active cells.
C13_SelectedCellsPromoted ==
    [][(/\ call.clean
        /\ call'.op = "refine_cells"
        /\ ValidIndices(call'.cells, num_cells))
       => \A i \in Positions(call'.cells, num_cells) :
             cell_level[i] < Levels - 1
             => /\ call'.outcome = "ok"
                /\ <<cell_level[i], ActiveCenters[i]>> \notin ActiveCells'
                /\ \A c \in ChildCenters(cell_level[i], ActiveCenters[i]) :
                      <<cell_level[i] + 1, c>> \in ActiveCells']_vars

\* ------------------------------------------------------------------------ C14
\* The centres of the active faces; those of the level-0 grid on a fresh
\* object, which holds no face_centers of its own.
ActiveFaceCenters ==
    IF geom.computed THEN geom.face_centers
    ELSE CartFaceCenters(MeshOf(0), ScaleOf(0))

\* Least and greatest member of a non-empty set of integers.
MinOf(S) == CHOOSE m \in S : \A x \in S : m <= x

MaxOf(S) == CHOOSE m \in S : \A x \in S : x <= m

\* The middle of active cell i as its incident faces give it: the middle of
\* the box that the centres of its faces span.
BoxCenter(i) ==
    LET fc == {ActiveFaceCenters[e[1]] : e \in {x \in cell_faces.col[i] : x[2] # 0}}
        xs == {c[1] : c \in fc}
        ys == {c[2] : c \in fc}
    IN  <<(MinOf(xs) + MaxOf(xs)) \div 2, (MinOf(ys) + MaxOf(ys)) \div 2>>

\* The level-grid cells that row i of the matrix M names.
RowCells(M, i) == {j \in 0..(M.ncols - 1) : \E e \in M.col[j] : e[1] = i /\ e[2] # 0}

\* C14: whenever the projection stack is initialised, row i of
\* cell_projections[cell_level[i]] has exactly one nonzero entry for every
\* active cell i, in the column of the level-grid cell that the active cell
\* is, and two active cells of one level never share a column.
C14_LevelsAgreeWithStack ==
    cell_projections # None
    => /\ \A i \in 0..(num_cells - 1) :
            LET l == cell_level[i]
                M == cell_projections[l + 1]
            IN  /\ l \in 0..(Levels - 1)
                /\ M.nrows = num_cells
                /\ M.ncols = CartNumCells(MeshOf(l))
                /\ Cardinality(RowCells(M, i)) = 1
                /\ \A j \in RowCells(M, i) :
                      CartCellCenters(MeshOf(l), ScaleOf(l))[j] = BoxCenter(i)
       /\ \A i, k \in 0..(num_cells - 1) :
            (i # k /\ cell_level[i] = cell_level[k])
            => RowCells(cell_projections[cell_level[i] + 1], i)
               \cap RowCells(cell_projections[cell_level[k] + 1], k) = {}

\* A grid mixing retained coarse cells and fine cells after a refinement.
C14_Witness ==
    /\ cell_projections # None
    /\ call.outcome = "ok"
    /\ CellsAtLevel(0) > 0
    /\ CellsAtLevel(1) > 0
    /\ num_cells >= 7

\* ------------------------------------------------------------------------ C15
\* The coordinates of the nodes incident to active face k.
FaceNodeCoords(k) == {<<e[1], nodes[e[1]]>> : e \in {x \in face_nodes.col[k] : x[2] # 0}}

\* The geometry columns and the incidence matrices name the same entities:
\* the centre stored for cell k is the middle of the box its faces span, and
\* the centre stored for face k is the mean of the nodes incident to it.
GeometryMatchesIncidence ==
    /\ DOMAIN geom.cell_centers = 0..(num_cells - 1)
    /\ DOMAIN geom.face_centers = 0..(num_faces - 1)
    /\ DOMAIN geom.face_normals = 0..(num_faces - 1)
    /\ DOMAIN nodes = 0..(num_nodes - 1)
    /\ \A k \in 0..(num_cells - 1) : geom.cell_centers[k] = BoxCenter(k)
    /\ \A k \in 0..(num_faces - 1) :
         LET nc == FaceNodeCoords(k)
             n == Cardinality(nc)
         IN  /\ n > 0
             /\ SumSet({<<c[1], c[2][1]>> : c \in nc}) = n * geom.face_centers[k][1]
             /\ SumSet({<<c[1], c[2][2]>> : c \in nc}) = n * geom.face_centers[k][2]
             /\ \A c \in nc :
                  (c[2][1] - geom.face_centers[k][1]) * geom.face_normals[k][1]
                  + (c[2][2] - geom.face_centers[k][2]) * geom.face_normals[k][2] = 0

\* Survivors first and newcomers after them, each group in ascending order of
\* its level-grid index.
NumberedByGroup(L) ==
    /\ \A i \in 0..(num_cells - 1) : cell_level[i] \in {L, L + 1}
    /\ \A i, k \in 0..(num_cells - 1) :
         i < k => /\ cell_level[i] <= cell_level[k]
                  /\ cell_level[i] = cell_level[k]
                     => \A a \in RowCells(cell_projections[cell_level[i] + 1], i),
                           b \in RowCells(cell_projections[cell_level[k] + 1], k) : a < b

\* C15: after a successful refine_level(L, mask), also when refine_cells makes
\* the call, on an object none of whose calls has failed, cell_level is L on
\* the first indices and L + 1 on the rest, each group is in ascending order
\* of its level-grid index, and column k of every rebuilt geometry array
\* belongs to the entity that index k of cell_faces and face_nodes names.
C15_NumberingAndGeometry ==
    [][(call.clean /\ call'.op \in RefineOps /\ call'.outcome = "ok")
       => /\ \E L \in 0..(Levels - 1) : L = StepLevel /\ NumberedByGroup(L)'
          /\ GeometryMatchesIncidence']_vars

\* The counts agree with the arrays a reader looks at: num_cells with the
\* length of cell_level and the columns of cell_faces, num_faces with the rows
\* of cell_faces and the columns of face_nodes, num_nodes with the rows of
\* face_nodes.
CountsAgree ==
    /\ num_cells = Cardinality(DOMAIN cell_level)
    /\ num_cells = cell_faces.ncols
    /\ num_faces = cell_faces.nrows
    /\ num_faces = face_nodes.ncols
    /\ num_nodes = face_nodes.nrows

\* C16: one refine_level invocation is a single transaction towards a reader
\* interleaved with it: in every state the reader can observe, between any
\* two assignments of the call included, the counts agree with the shapes of
\* cell_level, cell_faces and face_nodes.
C16_ReaderSeesWholeGrid == CountsAgree

\* Whether the selection of a call names an index outside the active range
\* 0..n-1.
OutOfRange(cells, n) == \E i \in cells : i >= n \/ i < 0

\* C17: a refine_cells call whose selection names an index outside
\* 0..num_cells-1, too large or negative, ends in an error and leaves
\* num_cells and cell_level as they were.
C17_OutOfRangeRejected ==
    [][(call'.op = "refine_cells" /\ ncalls' = ncalls + 1
        /\ OutOfRange(call'.cells, num_cells))
       => /\ call'.outcome # "ok"
          /\ num_cells' = num_cells
          /\ cell_level' = cell_level]_vars

\* ------------------------------------------------------------------------ C18
\* The signed entries of row f of cell_faces: the cells incident to active
\* face f, each with its sign.
FaceCells(f) ==
    UNION {{<<i, e[2]>> : e \in {x \in cell_faces.col[i] : x[1] = f /\ x[2] # 0}} :
              i \in 0..(cell_faces.ncols - 1)}

\* Whether active face f lies on the boundary of the domain, by its centre.
OnBoundary(f) ==
    LET c == ActiveFaceCenters[f]
        fine == MeshOf(Levels - 1)
    IN  \/ c[1] \in {0, 2 * fine[1]}
        \/ c[2] \in {0, 2 * fine[2]}

\* C18: every active face has one or two incident cells; with two, one entry
\* is +1 and the other -1; with one, the face lies on the domain boundary.
C18_FaceTwoSided ==
    call.clean
    => \A f \in 0..(num_faces - 1) :
          LET fc == FaceCells(f)
          IN  /\ Cardinality(fc) \in {1, 2}
              /\ Cardinality({e[1] : e \in fc}) = Cardinality(fc)
              /\ Cardinality(fc) = 2 => {e[2] : e \in fc} = {-1, 1}
              /\ Cardinality(fc) = 1 => OnBoundary(f)

\* ------------------------------------------------------------------------ C19
\* The entries of column f of face_nodes: the nodes incident to active face f,
\* each with the number of times it is counted.
FaceNodes(f) == {e \in face_nodes.col[f] : e[2] # 0}

\* C19: in every reachable state every active face has exactly two incident
\* nodes, each counted once, and they are its two end nodes: two active nodes
\* at distinct points with the face centre midway between them.
C19_FaceHasTwoEndNodes ==
    /\ face_nodes.ncols = num_faces
    /\ \A f \in 0..(num_faces - 1) :
         LET fn == FaceNodes(f)
             pts == {nodes[e[1]] : e \in fn}
         IN  /\ Cardinality(fn) = 2
             /\ \A e \in fn : e[2] = 1 /\ e[1] \in 0..(num_nodes - 1)
             /\ Cardinality(pts) = 2
             /\ \A p \in pts : \E q \in pts :
                   /\ q # p
                   /\ p[1] + q[1] = 2 * ActiveFaceCenters[f][1]
                   /\ p[2] + q[2] = 2 * ActiveFaceCenters[f][2]

\* A retained face of a coarse cell one of whose end nodes also belongs to
\* the refined region, after a refinement on an object with no failed call.
C19_Witness ==
    /\ call.clean
    /\ call.op \in RefineOps
    /\ \E f \in 0..(num_faces - 1) :
          /\ \E a \in FaceCells(f) : cell_level[a[1]] = 0
          /\ \A a \in FaceCells(f) : cell_level[a[1]] = 0
          /\ \E e \in FaceNodes(f) :
                \E g \in 0..(num_faces - 1) :
                   /\ e \in FaceNodes(g)
                   /\ \E b \in FaceCells(g) : cell_level[b[1]] = 1

\* ------------------------------------------------------------------------ C20
\* C20: in every reachable state, those after failed calls included, every
\* entry of cell_level is a level of the object and the active cells span at
\* most two adjacent levels: no two entries differ by more than 1.
C20_TwoAdjacentLevels ==
    /\ \A i \in DOMAIN cell_level : cell_level[i] \in 0..(Levels - 1)
    /\ \A i \in DOMAIN cell_level, j \in DOMAIN cell_level :
          cell_level[i] - cell_level[j] <= 1

\* Active cells of two adjacent levels in the state a failed call leaves
\* behind, on an object of more than two levels.
C20_Witness ==
    /\ call.op \in RefineOps
    /\ call.outcome # "ok"
    /\ Levels >= 3
    /\ \E i \in DOMAIN cell_level, j \in DOMAIN cell_level :
          cell_level[j] = cell_level[i] + 1

=============================================================================
